---- MODULE Spec2Model ----
(***************************************************************************)
(* The interactive token manager of rwa-backend/index.ts as a state        *)
(* machine.  The program is one chain of async functions; every `await`    *)
(* (a line typed by the operator, an answer of the chain) is a point where *)
(* the program waits, and `pc` names the await it is waiting at.           *)
(*                                                                         *)
(* Strings typed by the operator are sequences of one-character strings,   *)
(* so that prefixing, parsing and scaling are computed, not assumed.       *)
(* A value that may be absent (null, undefined, NaN) is <<>> when absent   *)
(* and <<v>> when present.                                                 *)
(***************************************************************************)
EXTENDS Integers, Sequences, FiniteSets, TLC

\* ------------------------------------------------------------------ bounds
\* Identities the registry may hold before create/import are refused.
MaxAccounts == 3
\* Hex digits of a private key and of an address (64 and 40 on the chain).
HexLen == 1
\* Largest decimals() answer of a token contract (a uint8 on the chain).
MaxDecimals == 2
\* Digits before and after the point of the amounts given to parseAmount.
MaxIntDigits == 2
MaxFracDigits == 3

\* ------------------------------------------------------------- absent values
Null == <<>>
Some(v) == <<v>>
NaN == <<>>

\* ------------------------------------------------------------------ strings
DigitChars == <<"0", "1", "2", "3", "4", "5", "6", "7", "8", "9">>
Digits == {DigitChars[i] : i \in 1..10}
HexChars == Digits \cup {"a", "b", "c", "d", "e", "f"}

DigitVal(c) == (CHOOSE i \in 1..10 : DigitChars[i] = c) - 1

RECURSIVE NatOf(_)
\* BigInt / Number of a string of decimal digits; the empty string is 0.
NatOf(s) ==
    IF s = <<>> THEN 0
    ELSE 10 * NatOf(SubSeq(s, 1, Len(s) - 1)) + DigitVal(s[Len(s)])

RECURSIVE Pow10(_)
Pow10(n) == IF n = 0 THEN 1 ELSE 10 * Pow10(n - 1)

\* c repeated n times.
Rep(c, n) == [i \in 1..n |-> c]

\* String.prototype.startsWith("0x")
StartsWith0x(s) == Len(s) >= 2 /\ s[1] = "0" /\ s[2] = "x"

\* String.prototype.toLowerCase, on the letters the prompts compare with.
LowerChar(c) == IF c = "C" THEN "c" ELSE IF c = "Y" THEN "y" ELSE c
toLowerCase(s) == [i \in 1..Len(s) |-> LowerChar(s[i])]

\* Helper to convert string address to 0x format.
toHexAddress(address) ==
    IF ~StartsWith0x(address) THEN <<"0", "x">> \o address ELSE address

\* The key normalisation of initialize and importAccount.
NormalizeKey(privateKey) ==
    IF ~StartsWith0x(privateKey) THEN <<"0", "x">> \o privateKey ELSE privateKey

\* viem's isAddress, as applied to every address argument when a contract
\* call is encoded: 0x followed by exactly the address's hex digits.
isAddress(a) ==
    /\ StartsWith0x(a)
    /\ Len(a) = 2 + HexLen
    /\ \A i \in 3..Len(a) : a[i] \in HexChars

\* privateKeyToAccount throws unless the key is 0x followed by exactly the
\* key's hex digits, and not zero.
ValidPrivateKey(k) ==
    /\ StartsWith0x(k)
    /\ Len(k) = 2 + HexLen
    /\ \A i \in 3..Len(k) : k[i] \in HexChars
    /\ \E i \in 3..Len(k) : k[i] # "0"

\* The address derived from a private key: a fixed function of the key
\* (public key, hash, last bytes), here a fixed digit-wise substitution.
DeriveChar(c) ==
    IF c = "1" THEN "a" ELSE IF c = "2" THEN "b" ELSE IF c = "3" THEN "c" ELSE "9"
DeriveAddress(k) == <<"0", "x">> \o [i \in 1..HexLen |-> DeriveChar(k[2 + i])]

\* The account object privateKeyToAccount returns for a valid key.
privateKeyToAccount(k) == [address |-> DeriveAddress(k), privateKey |-> k]

\* `let account` before initialize has assigned it.
NoAccount == [address |-> <<>>, privateKey |-> <<>>]

\* ------------------------------------------------------------------ parsing
RECURSIVE SkipSpaces(_)
SkipSpaces(s) == IF s # <<>> /\ s[1] = " " THEN SkipSpaces(Tail(s)) ELSE s

RECURSIVE DigitPrefixLen(_)
DigitPrefixLen(s) ==
    IF s = <<>> \/ s[1] \notin Digits THEN 0 ELSE 1 + DigitPrefixLen(Tail(s))

\* JavaScript's parseInt(s) in radix 10: leading blanks are skipped, a sign
\* is read, then the longest run of digits; what follows is ignored, and
\* with no digit at all the result is NaN.
parseInt(s) ==
    LET t == SkipSpaces(s)
        neg == t # <<>> /\ t[1] = "-"
        u == IF t # <<>> /\ t[1] \in {"-", "+"} THEN Tail(t) ELSE t
        n == DigitPrefixLen(u)
    IN  IF n = 0 THEN NaN
        ELSE Some((IF neg THEN -1 ELSE 1) * NatOf(SubSeq(u, 1, n)))

\* The test /^(-?)([0-9]*)\.?([0-9]*)$/ of parseUnits.
MatchesDecimal(value) ==
    LET body == IF value # <<>> /\ value[1] = "-" THEN Tail(value) ELSE value
    IN  /\ \A i \in 1..Len(body) : body[i] \in Digits \cup {"."}
        /\ Cardinality({i \in 1..Len(body) : body[i] = "."}) <= 1

RECURSIVE TrimZeros(_)
\* fraction.replace(/(0+)$/, '')
TrimZeros(f) ==
    IF f # <<>> /\ f[Len(f)] = "0" THEN TrimZeros(SubSeq(f, 1, Len(f) - 1)) ELSE f

\* viem's parseUnits(value, decimals): <<n>> for the bigint n it returns,
\* <<>> when it throws.
parseUnits(value, decimals) ==
    IF ~MatchesDecimal(value) THEN Null
    ELSE
    LET dots == {i \in 1..Len(value) : value[i] = "."}
        dot == IF dots = {} THEN 0 ELSE CHOOSE i \in dots : TRUE
        integer0 == IF dot = 0 THEN value ELSE SubSeq(value, 1, dot - 1)
        fraction0 == IF dot = 0 THEN <<"0">> ELSE SubSeq(value, dot + 1, Len(value))
        negative == integer0 # <<>> /\ integer0[1] = "-"
        integer == IF negative THEN Tail(integer0) ELSE integer0
        fraction == TrimZeros(fraction0)
        \* decimals === 0: Math.round(Number(`.${fraction}`)) === 1
        roundUp0 == fraction # <<>> /\ DigitVal(fraction[1]) >= 5
        \* fraction.length > decimals: round at the last kept digit
        left == SubSeq(fraction, 1, decimals - 1)
        unit == fraction[decimals]
        right == SubSeq(fraction, decimals + 1, Len(fraction))
        rounded == DigitVal(unit) + (IF DigitVal(right[1]) >= 5 THEN 1 ELSE 0)
        carried == IF rounded > 9 THEN (NatOf(left) + 1) * 10
                   ELSE NatOf(left) * 10 + rounded
        \* the rounded fraction grew by a digit: drop it, integer + 1
        overflow == carried >= Pow10(decimals)
        res ==
            IF decimals = 0
            THEN [int |-> NatOf(integer) + (IF roundUp0 THEN 1 ELSE 0),
                  frac |-> 0,
                  empty |-> integer = <<>> /\ ~roundUp0]
            ELSE IF Len(fraction) > decimals
            THEN [int |-> NatOf(integer) + (IF overflow THEN 1 ELSE 0),
                  frac |-> IF overflow THEN carried - Pow10(decimals) ELSE carried,
                  empty |-> FALSE]
            ELSE [int |-> NatOf(integer),
                  frac |-> NatOf(fraction) * Pow10(decimals - Len(fraction)),
                  empty |-> FALSE]
        magnitude == res.int * Pow10(decimals) + res.frac
    IN  \* BigInt("-") is a SyntaxError; BigInt("") is 0n
        IF negative /\ res.empty THEN Null
        ELSE Some(IF negative THEN -magnitude ELSE magnitude)

\* Utility function to parse amounts.
parseAmount(amount, decimals) == parseUnits(amount, decimals)

RECURSIVE toString(_)
\* BigInt.prototype.toString of a bigint that is not negative.
toString(n) ==
    IF n < 10 THEN <<DigitChars[n + 1]>>
    ELSE toString(n \div 10) \o <<DigitChars[(n % 10) + 1]>>

\* String.prototype.padStart(n, '0')
padStart(s, n) == IF Len(s) >= n THEN s ELSE Rep("0", n - Len(s)) \o s

\* viem's formatUnits(value, decimals): the digits of |value| padded to
\* `decimals`, split `decimals` from the end, the fraction without its
\* trailing zeros, "0" for an empty integer part.
formatUnits(value, decimals) ==
    LET negative == value < 0
        display == padStart(toString(IF negative THEN -value ELSE value), decimals)
        integer == SubSeq(display, 1, Len(display) - decimals)
        fraction == TrimZeros(SubSeq(display, Len(display) - decimals + 1,
                                     Len(display)))
    IN  (IF negative THEN <<"-">> ELSE <<>>)
        \o (IF integer = <<>> THEN <<"0">> ELSE integer)
        \o (IF fraction # <<>> THEN <<".">> \o fraction ELSE <<>>)

\* formatAmount with the precision ignored.
formatAmountUnscaled(amount, decimals) == formatUnits(amount, 0)

\* Utility function to format amounts.
formatAmount(amount, decimals) == formatUnits(amount, decimals)

\* Whether viem encodes n as a uint256 argument (it throws outside 0..2^256-1;
\* the amounts of this model stay far below the upper end).
EncodesAsUint256(n) == n >= 0

\* --------------------------------------------------- what the operator types
\* Private keys: 0x and the key's hex digits.
KeyOf(c) == <<"0", "x">> \o Rep(c, HexLen)
\* Addresses: 0x and the address's hex digits.
AddrOf(c) == <<"0", "x">> \o Rep(c, HexLen)

\* crypto.randomBytes(32): any 32 bytes, the all-zero ones included.
RandomKeys == {KeyOf("1"), KeyOf("2"), KeyOf("0")}
\* Keys typed at "Enter private key": with and without 0x, and not a key.
KeyInputs == {Rep("1", HexLen), KeyOf("2"), <<"z">>}
\* Addresses typed at a prompt: nothing, without 0x, with 0x, not an address.
AddressInputs == {<<>>, Rep("b", HexLen), AddrOf("a"), <<"z">>}
\* Sender and recipient typed in transferFromTokens.
SenderInputs == {AddrOf("a"), <<"z">>}
RecipientInputs == {Rep("b", HexLen), <<>>}
\* Token addresses typed at "Enter token address".
TokenInputs == {Rep("d", HexLen), AddrOf("e"), <<"z">>}
\* Amounts typed at a prompt.
AmountInputs == {<<>>, <<"5">>, <<"1", ".", "5">>, <<"0", ".", "9", "9", "9", "5">>,
                 <<"a">>, <<"-", "1">>}
\* The decimal strings given to parseAmount on its own: an optional sign,
\* up to MaxIntDigits digits, and a point with up to MaxFracDigits digits;
\* the digits are those that round down, round up and carry.
IntegerParts == UNION {[1..n -> {"0", "1", "9"}] : n \in 1..MaxIntDigits}
FractionParts == UNION {[1..n -> {"0", "4", "5", "9"}] : n \in 0..MaxFracDigits}
DecimalStrings ==
    {sign \o integer \o (IF fraction = <<>> THEN <<>> ELSE <<".">> \o fraction) :
        sign \in {<<>>, <<"-">>}, integer \in IntegerParts, fraction \in FractionParts}
\* Lines typed at "Select account number (or 'c' to create new)".
SelectInputs == {<<"1">>, <<"2">>, <<"3">>, <<"4">>, <<"5">>, <<"0">>, <<"-", "1">>,
                 <<"2", "x">>, <<" ", "1">>, <<"x">>, <<>>, <<"c">>, <<"C">>}
\* Lines typed at "Switch to this account? (y/n)".
YesNoInputs == {<<"y">>, <<"Y">>, <<"n">>, <<>>}
\* Lines typed at "Enter your choice".
MenuInputs == {"0", "1", "2", "3", "4", "5", "6", "7", "8", "9", "10", "11", "12",
               "13", "x", ""}
\* Account and token names.
NameInputs == {<<"n">>}

\* ------------------------------------------------------ what the chain answers
FactoryAddress == AddrOf("f")
\* decimals() of a token contract.
DecimalsAnswers == 0..MaxDecimals
\* allowance(owner, spender) of a token contract, in smallest units.
AllowanceAnswers == {0, 49, 50, 1500}
\* The TokenCreated events of the factory in one block, as their tokenAddress
\* arguments in log order: none, the operator's own, another sender's alone,
\* another sender's before the operator's own.
LogsAnswers == {<<>>, <<AddrOf("d")>>, <<AddrOf("e")>>, <<AddrOf("e"), AddrOf("d")>>}
\* The token the operator's own createToken transaction creates; any other
\* address in the block's events is a token of another sender's transaction.
OwnToken == AddrOf("d")

\* -------------------------------------------------------------------- state
VARIABLES
    pc,                   \* the await the program is waiting at
    cur,                  \* the operation function that is executing
    nest,                 \* the operation functions entered since the menu choice
    config,               \* const config (lines 40-45)
    prompted,             \* the connection parameters asked for at start-up
    exitCode,             \* <<>> while running, <<n>> after process.exit(n)
    accounts,             \* let accounts: AccountInfo[]
    currentAccountIndex,  \* let currentAccountIndex (0-based)
    account,              \* let account: the signer passed to writeContract
    userAddress,          \* let userAddress
    walletClient,         \* let walletClient, as the account it is bound to
    tokenAddress,         \* let tokenAddress: <<>> for null
    loc,                  \* the local constants of the executing operation
    tx,                   \* the transaction writeContract sent in this operation
    out,                  \* what the operation has printed so far
    pre,                  \* the session when the menu choice was made
    menuChoice,           \* const choice of showMainMenu: the line read, <<>> before
    verified              \* the tokenAddress whose details fetch last succeeded, <<>>
                          \* once tokenAddress is assigned or a fetch of it fails

sessVars == <<accounts, currentAccountIndex, account, userAddress, walletClient>>
bootVars == <<config, prompted, exitCode>>
vars == <<pc, cur, nest, config, prompted, exitCode, accounts, currentAccountIndex,
          account, userAddress, walletClient, tokenAddress, loc, tx, out, pre,
          menuChoice, verified>>

\* The session: the registry, the current index, the signer and its binding,
\* and the connected token.
Session ==
    [accounts |-> accounts, currentAccountIndex |-> currentAccountIndex,
     account |-> account, userAddress |-> userAddress,
     walletClient |-> walletClient, tokenAddress |-> tokenAddress]

NoLoc ==
    [name |-> Null, initialOwner |-> Null, recipient |-> Null, spender |-> Null,
     sender |-> Null, address |-> Null, amount |-> Null, decimals |-> Null,
     amountInWei |-> Null, allowance |-> Null, logs |-> Null, choice |-> Null,
     switchToNew |-> Null, recipientInput |-> Null, formatted |-> Null]

\* createWalletClient({account, ...})
createWalletClient(a) == [account |-> a]

\* push with the entry put in front of the list.
pushFront(list, entry) == <<entry>> \o list

\* `accounts.push(entry)`: the entry goes to the end of the list.
push(list, entry) == Append(list, entry)

\* accounts[i] of the 0-based array, <<>> for undefined.
AccountAt(i) == IF i + 1 \in DOMAIN accounts THEN Some(accounts[i + 1]) ELSE Null

\* process.env, as the config it gives (lines 40-45): everything set; nothing
\* set (rpcUrl falls back to its default, parseInt("") is NaN); everything set
\* with a PRIVATE_KEY that is no key.
EnvConfigs ==
    {[rpcUrl |-> "env", chainId |-> Some(1337),
      tokenFactoryAddress |-> FactoryAddress, privateKey |-> KeyOf("1")],
     [rpcUrl |-> "http://localhost:8545", chainId |-> NaN,
      tokenFactoryAddress |-> <<>>, privateKey |-> <<>>],
     [rpcUrl |-> "env", chainId |-> Some(1337),
      tokenFactoryAddress |-> FactoryAddress, privateKey |-> <<"z">>]}

Init ==
    /\ pc = "initialize"
    /\ cur = "initialize"
    /\ nest = <<>>
    /\ config \in EnvConfigs
    /\ prompted = {}
    /\ exitCode = Null
    /\ accounts = <<>>
    /\ currentAccountIndex = 0
    /\ account = NoAccount
    /\ userAddress = <<>>
    /\ walletClient = createWalletClient(NoAccount)
    /\ tokenAddress = Null
    /\ loc = NoLoc
    /\ tx = Null
    /\ out = {}
    /\ pre = Session
    /\ menuChoice = Null
    /\ verified = Null

\* Every operation ends with `await showMainMenu()`.
ToMainMenu == pc' = "showMainMenu"

\* ---------------------------------------------------------------- bootstrap
\* initialize, up to its await of getBalance: asks for the private key and the
\* factory address when config has none, derives the account, registers it
\* as accounts[0] and binds the wallet client; a key that is no key throws
\* into the catch, which exits with status 1.
initialize ==
    /\ pc = "initialize"
    /\ \E keyIn \in KeyInputs, factoryIn \in {FactoryAddress} :
        LET key == IF config.privateKey = <<>> THEN keyIn ELSE config.privateKey
            factory == IF config.tokenFactoryAddress = <<>> THEN factoryIn
                       ELSE config.tokenFactoryAddress
            privateKey == NormalizeKey(key)
            acct == privateKeyToAccount(privateKey)
        IN  /\ config' = [config EXCEPT !.privateKey = key,
                                        !.tokenFactoryAddress = factory]
            /\ prompted' = (IF config.privateKey = <<>> THEN {"privateKey"} ELSE {})
                     \cup (IF config.tokenFactoryAddress = <<>>
                           THEN {"tokenFactoryAddress"} ELSE {})
            /\ IF ValidPrivateKey(privateKey)
               THEN /\ account' = acct
                    /\ userAddress' = acct.address
                    /\ accounts' = push(accounts,
                          [name |-> <<"D">>, privateKey |-> privateKey,
                           account |-> acct, address |-> acct.address])
                    /\ currentAccountIndex' = 0
                    /\ walletClient' = createWalletClient(acct)
                    /\ out' = {"Connected with account"}
                    /\ pc' = "init_getBalance"
                    /\ exitCode' = exitCode
               ELSE /\ out' = {"Initialization error"}
                    /\ pc' = "exited"
                    /\ exitCode' = Some(1)
                    /\ UNCHANGED sessVars
    /\ UNCHANGED <<cur, nest, tokenAddress, loc, tx, pre, menuChoice, verified>>

\* initialize, from the answer to getBalance on: the balance is printed and
\* the menu shown, or the read fails and the catch exits with status 1.
initialize_getBalance ==
    /\ pc = "init_getBalance"
    /\ \E ok \in BOOLEAN :
        IF ok
        THEN /\ out' = out \cup {"Account balance", "Initialization complete!"}
             /\ ToMainMenu
             /\ exitCode' = exitCode
        ELSE /\ out' = out \cup {"Initialization error"}
             /\ pc' = "exited"
             /\ exitCode' = Some(1)
    /\ UNCHANGED <<cur, nest, config, prompted, sessVars, tokenAddress, loc, tx, pre,
                   menuChoice, verified>>

\* ------------------------------------------------------------------ the menu
\* showMainMenu, up to its await of the choice: prints the current account
\* (accounts[currentAccountIndex]) and the menu.  A new operation starts
\* here: what the last one left behind is dropped.
showMainMenu ==
    /\ pc = "showMainMenu"
    /\ pc' = "menu_choice"
    /\ cur' = "showMainMenu"
    /\ nest' = <<>>
    /\ loc' = NoLoc
    /\ tx' = Null
    /\ out' = {}
    /\ pre' = Session
    /\ menuChoice' = Null
    /\ UNCHANGED <<bootVars, sessVars, tokenAddress, verified>>

\* The case labels of the switch of showMainMenu.
Selections == {"0", "1", "2", "3", "4", "5", "6", "7", "8", "9", "10", "11", "12"}

\* The function each case of the switch calls.
Dispatch(choice) ==
    CASE choice = "1" -> "createToken"
      [] choice = "2" -> "connectToToken"
      [] choice = "3" -> "mintTokens"
      [] choice = "4" -> "burnTokens"
      [] choice = "5" -> "transferTokens"
      [] choice = "6" -> "approveTokens"
      [] choice = "7" -> "transferFromTokens"
      [] choice = "8" -> "checkBalance"
      [] choice = "9" -> "showTokenDetails"
      [] choice = "10" -> "createNewAccount"
      [] choice = "11" -> "importAccount"
      [] choice = "12" -> "switchAccount"
      [] choice = "0" -> "exit"
      [] OTHER -> "default"

\* Exit with status 1 for status 0.
ExitWithFailure ==
    /\ out' = {"Goodbye!"}
    /\ pc' = "exited"
    /\ exitCode' = Some(1)
    /\ UNCHANGED <<cur, nest>>

\* case "0": "Goodbye!" is printed, the input closed and the process exits
\* with status 0.
Exit ==
    /\ out' = {"Goodbye!"}
    /\ pc' = "exited"
    /\ exitCode' = Some(0)
    /\ UNCHANGED <<cur, nest>>

\* InvalidChoice with the process exiting after the message.
InvalidChoiceExits ==
    /\ out' = {"Invalid choice"}
    /\ pc' = "exited"
    /\ exitCode' = Some(0)
    /\ UNCHANGED <<cur, nest>>

\* default: "Invalid choice" is printed and the menu shown again.
InvalidChoice ==
    /\ out' = {"Invalid choice"}
    /\ ToMainMenu
    /\ UNCHANGED <<cur, nest, exitCode>>

\* showMainMenu, from the choice on: the switch.  "0" exits with status 0,
\* an unknown line prints "Invalid choice" and shows the menu again, every
\* other case calls its operation.  Create and import are refused once the
\* registry holds MaxAccounts identities (the bound of the model).
showMainMenu_choice ==
    /\ pc = "menu_choice"
    /\ \E choice \in MenuInputs :
        LET f == Dispatch(choice) IN
        /\ f \in {"createNewAccount", "importAccount"} => Len(accounts) < MaxAccounts
        /\ menuChoice' = Some(choice)
        /\ CASE f = "exit" -> Exit
             [] f = "default" -> InvalidChoice
             [] OTHER ->
                  /\ out' = {}
                  /\ pc' = f
                  /\ cur' = f
                  /\ nest' = <<f>>
                  /\ exitCode' = exitCode
    /\ UNCHANGED <<config, prompted, sessVars, tokenAddress, loc, tx, pre, verified>>

\* ------------------------------------------------------- token operations
\* NoTokenConnected with the guard dropped.
NoTokenConnectedDropped(t) == FALSE

\* `if (!tokenAddress)`: the guard each token operation starts with.
NoTokenConnected(t) == t = Null

\* The catch of the executing operation: the error is printed and the
\* operation goes on to `await showMainMenu()`.  `why` records what threw:
\* "chain" for a request the chain failed or refused, "input" for a value
\* the client library rejected before any request.
Caught(why) == /\ out' = out \cup {"Error", why}
               /\ ToMainMenu

\* Whether the connected token's address is an address; a read of a
\* contract at anything else throws.
TokenIsAddress == tokenAddress # Null /\ isAddress(tokenAddress[1])

\* createToken, its three prompts: name, symbol and initial owner, which
\* defaults to userAddress.
createToken ==
    /\ pc = "createToken"
    /\ \E name \in NameInputs, initialOwnerInput \in AddressInputs :
        loc' = [loc EXCEPT
                  !.name = Some(name),
                  !.initialOwner = Some(IF initialOwnerInput # <<>>
                                        THEN toHexAddress(initialOwnerInput)
                                        ELSE userAddress)]
    /\ out' = out \cup {"Creating token"}
    /\ pc' = "write"
    /\ UNCHANGED <<cur, nest, bootVars, sessVars, tokenAddress, tx, pre, menuChoice, verified>>

\* mintTokens, its guard and prompts: recipient (default userAddress), amount.
mintTokens ==
    /\ pc = "mintTokens"
    /\ IF NoTokenConnected(tokenAddress)
       THEN /\ out' = out \cup {"No token connected"}
            /\ ToMainMenu
            /\ loc' = loc
       ELSE /\ \E recipientInput \in AddressInputs, amount \in AmountInputs :
                loc' = [loc EXCEPT
                          !.recipientInput = Some(recipientInput),
                          !.recipient = Some(IF recipientInput # <<>>
                                             THEN toHexAddress(recipientInput)
                                             ELSE userAddress),
                          !.amount = Some(amount)]
            /\ out' = out \cup {"prompt"}
            /\ pc' = "decimals"
    /\ UNCHANGED <<cur, nest, bootVars, sessVars, tokenAddress, tx, pre, menuChoice, verified>>

\* burnTokens, its guard and prompt: amount.
burnTokens ==
    /\ pc = "burnTokens"
    /\ IF NoTokenConnected(tokenAddress)
       THEN /\ out' = out \cup {"No token connected"}
            /\ ToMainMenu
            /\ loc' = loc
       ELSE /\ \E amount \in AmountInputs :
                loc' = [loc EXCEPT !.amount = Some(amount)]
            /\ out' = out \cup {"prompt"}
            /\ pc' = "decimals"
    /\ UNCHANGED <<cur, nest, bootVars, sessVars, tokenAddress, tx, pre, menuChoice, verified>>

\* transferTokens, its guard and prompts: recipient, amount.
transferTokens ==
    /\ pc = "transferTokens"
    /\ IF NoTokenConnected(tokenAddress)
       THEN /\ out' = out \cup {"No token connected"}
            /\ ToMainMenu
            /\ loc' = loc
       ELSE /\ \E recipientInput \in AddressInputs, amount \in AmountInputs :
                loc' = [loc EXCEPT
                          !.recipient = Some(toHexAddress(recipientInput)),
                          !.amount = Some(amount)]
            /\ out' = out \cup {"prompt"}
            /\ pc' = "decimals"
    /\ UNCHANGED <<cur, nest, bootVars, sessVars, tokenAddress, tx, pre, menuChoice, verified>>

\* approveTokens, its guard and prompts: spender, amount.
approveTokens ==
    /\ pc = "approveTokens"
    /\ IF NoTokenConnected(tokenAddress)
       THEN /\ out' = out \cup {"No token connected"}
            /\ ToMainMenu
            /\ loc' = loc
       ELSE /\ \E spenderInput \in AddressInputs, amount \in AmountInputs :
                loc' = [loc EXCEPT
                          !.spender = Some(toHexAddress(spenderInput)),
                          !.amount = Some(amount)]
            /\ out' = out \cup {"prompt"}
            /\ pc' = "decimals"
    /\ UNCHANGED <<cur, nest, bootVars, sessVars, tokenAddress, tx, pre, menuChoice, verified>>

\* transferFromTokens, its guard and prompts: sender, recipient, amount.
transferFromTokens ==
    /\ pc = "transferFromTokens"
    /\ IF NoTokenConnected(tokenAddress)
       THEN /\ out' = out \cup {"No token connected"}
            /\ ToMainMenu
            /\ loc' = loc
       ELSE /\ \E senderInput \in SenderInputs,
                  recipientInput \in RecipientInputs,
                  amount \in AmountInputs :
                loc' = [loc EXCEPT
                          !.sender = Some(toHexAddress(senderInput)),
                          !.recipient = Some(toHexAddress(recipientInput)),
                          !.amount = Some(amount)]
            /\ out' = out \cup {"prompt"}
            /\ pc' = "decimals"
    /\ UNCHANGED <<cur, nest, bootVars, sessVars, tokenAddress, tx, pre, menuChoice, verified>>

\* checkBalance, its guard and prompt: address (default userAddress).
checkBalance ==
    /\ pc = "checkBalance"
    /\ IF NoTokenConnected(tokenAddress)
       THEN /\ out' = out \cup {"No token connected"}
            /\ ToMainMenu
            /\ loc' = loc
       ELSE /\ \E addressInput \in AddressInputs :
                loc' = [loc EXCEPT
                          !.address = Some(IF addressInput # <<>>
                                           THEN toHexAddress(addressInput)
                                           ELSE userAddress)]
            /\ out' = out \cup {"prompt"}
            /\ pc' = "decimals"
    /\ UNCHANGED <<cur, nest, bootVars, sessVars, tokenAddress, tx, pre, menuChoice, verified>>

\* `await publicClient.readContract({functionName: 'decimals'})` and what
\* follows it up to the next await: the read fails (always, when the token
\* address is no address) or answers; the amount is then scaled with
\* parseAmount, which may throw.
readDecimals ==
    /\ pc = "decimals"
    /\ \E ok \in BOOLEAN, d \in DecimalsAnswers :
        IF ~TokenIsAddress
        THEN Caught("input") /\ loc' = loc
        ELSE IF ~ok
        THEN Caught("chain") /\ loc' = loc
        ELSE IF cur = "checkBalance"
        THEN /\ loc' = [loc EXCEPT !.decimals = Some(d)]
             /\ out' = out \cup {"read"}
             /\ pc' = "postread"
        ELSE LET amountInWei == parseAmount(loc.amount[1], d) IN
             IF amountInWei = Null
             THEN /\ loc' = [loc EXCEPT !.decimals = Some(d)]
                  /\ out' = out \cup {"read", "Error", "input"}
                  /\ ToMainMenu
             ELSE /\ loc' = [loc EXCEPT !.decimals = Some(d),
                                        !.amountInWei = amountInWei]
                  /\ out' = out \cup {"read"}
                  /\ pc' = IF cur = "transferFromTokens" THEN "allowance" ELSE "write"
    /\ UNCHANGED <<cur, nest, bootVars, sessVars, tokenAddress, tx, pre, menuChoice, verified>>

\* InsufficientAllowance with the comparison turned around.
InsufficientAllowanceReversed(allowance, amountInWei) == amountInWei < allowance

\* `if (allowance < amountInWei)` of transferFromTokens.
InsufficientAllowance(allowance, amountInWei) == allowance < amountInWei

\* transferFromTokens, its allowance check: reads allowance(sender,
\* userAddress) and goes back to the menu when it is below the amount.
readAllowance ==
    /\ pc = "allowance"
    /\ \E ok \in BOOLEAN, a \in AllowanceAnswers :
        IF ~isAddress(loc.sender[1]) \/ ~isAddress(userAddress)
        THEN Caught("input") /\ loc' = loc
        ELSE IF ~ok
        THEN Caught("chain") /\ loc' = loc
        ELSE /\ loc' = [loc EXCEPT !.allowance = Some(a)]
             /\ IF InsufficientAllowance(a, loc.amountInWei[1])
                THEN /\ out' = out \cup {"read", "Insufficient allowance"}
                     /\ ToMainMenu
                ELSE /\ out' = out \cup {"read"}
                     /\ pc' = "write"
    /\ UNCHANGED <<cur, nest, bootVars, sessVars, tokenAddress, tx, pre, menuChoice, verified>>

\* The contract call the executing operation passes to writeContract: the
\* contract, the function, its address arguments and its amount argument.
CallOf(f) ==
    CASE f = "createToken" ->
           [to |-> toHexAddress(config.tokenFactoryAddress), fn |-> "createToken",
            addrs |-> <<loc.initialOwner[1]>>, amount |-> Null]
      [] f = "mintTokens" ->
           [to |-> tokenAddress[1], fn |-> "mint",
            addrs |-> <<loc.recipient[1]>>, amount |-> loc.amountInWei]
      [] f = "burnTokens" ->
           [to |-> tokenAddress[1], fn |-> "burn",
            addrs |-> <<>>, amount |-> loc.amountInWei]
      [] f = "transferTokens" ->
           [to |-> tokenAddress[1], fn |-> "transfer",
            addrs |-> <<loc.recipient[1]>>, amount |-> loc.amountInWei]
      [] f = "approveTokens" ->
           [to |-> tokenAddress[1], fn |-> "approve",
            addrs |-> <<loc.spender[1]>>, amount |-> loc.amountInWei]
      [] OTHER ->
           [to |-> tokenAddress[1], fn |-> "transferFrom",
            addrs |-> <<loc.sender[1], loc.recipient[1]>>, amount |-> loc.amountInWei]

\* Whether viem can encode the call: every address is an address and the
\* amount is a uint256.  Otherwise writeContract throws before it sends.
Encodes(call) ==
    /\ isAddress(call.to)
    /\ \A i \in 1..Len(call.addrs) : isAddress(call.addrs[i])
    /\ call.amount # Null => EncodesAsUint256(call.amount[1])

\* The signer of a transaction: `account: account` of every writeContract.
Signer == account

\* `await walletClient.writeContract({..., account: account})`: the call is
\* encoded (or throws), signed by `account` and sent; the chain takes it and
\* answers with its hash, or refuses it (the gas estimate reverts, the funds
\* are short, the RPC is down) and writeContract throws.
writeContract ==
    /\ pc = "write"
    /\ LET call == CallOf(cur) IN
       IF ~Encodes(call)
       THEN Caught("input") /\ tx' = tx
       ELSE \E accepted \in BOOLEAN :
            /\ tx' = Some([fn |-> call.fn, from |-> Signer.address, to |-> call.to,
                           addrs |-> call.addrs, amount |-> call.amount,
                           status |-> IF accepted THEN "pending" ELSE "refused"])
            /\ IF accepted
               THEN /\ out' = out \cup {"Transaction sent"}
                    /\ pc' = "receipt"
               ELSE Caught("chain")
    /\ UNCHANGED <<cur, nest, bootVars, sessVars, tokenAddress, loc, pre, menuChoice, verified>>

\* `await publicClient.waitForTransactionReceipt({hash})`: it returns the
\* receipt once the transaction is mined, whatever the receipt's status
\* ("success" or "reverted"), or it throws (the wait failed).  The amount
\* operations then print their "... successfully!" line; createToken goes on
\* to getLogs.
waitForTransactionReceipt ==
    /\ pc = "receipt"
    /\ \E r \in {"success", "reverted", "failed"} :
        /\ tx' = Some([tx[1] EXCEPT !.status = r])
        /\ IF r = "failed"
           THEN Caught("chain")
           ELSE IF cur = "createToken"
           THEN /\ out' = out
                /\ pc' = "getLogs"
           ELSE /\ out' = out \cup {"successfully!"}
                /\ pc' = "postread"
    /\ UNCHANGED <<cur, nest, bootVars, sessVars, tokenAddress, loc, pre, menuChoice, verified>>

\* The address arguments of the read that follows the transaction (the
\* updated balance or allowance), or of checkBalance's balanceOf.
PostReadArgs(f) ==
    CASE f = "mintTokens" -> <<loc.recipient[1]>>
      [] f = "burnTokens" -> <<userAddress>>
      [] f = "transferTokens" -> <<userAddress>>
      [] f = "approveTokens" -> <<userAddress, loc.spender[1]>>
      [] f = "checkBalance" -> <<loc.address[1]>>
      [] OTHER -> <<loc.recipient[1]>>

\* The read of the updated balance (allowance, for approve) and its print.
postRead ==
    /\ pc = "postread"
    /\ \E ok \in BOOLEAN :
        IF \E i \in 1..Len(PostReadArgs(cur)) : ~isAddress(PostReadArgs(cur)[i])
        THEN Caught("input")
        ELSE IF ~ok
        THEN Caught("chain")
        ELSE /\ out' = out \cup {"New balance"}
             /\ IF cur = "transferFromTokens" THEN pc' = "postread2" ELSE ToMainMenu
    /\ UNCHANGED <<cur, nest, bootVars, sessVars, tokenAddress, loc, tx, pre, menuChoice, verified>>

\* transferFromTokens, its last read: allowance(sender, userAddress) again.
postReadAllowance ==
    /\ pc = "postread2"
    /\ \E ok \in BOOLEAN :
        IF ~ok
        THEN Caught("chain")
        ELSE /\ out' = out \cup {"Remaining allowance"}
             /\ ToMainMenu
    /\ UNCHANGED <<cur, nest, bootVars, sessVars, tokenAddress, loc, tx, pre, menuChoice, verified>>

\* EventFound asking for more than one event.
EventFoundOffByOne(logs) == Len(logs) > 1

\* `logs.length > 0 && logs[0].args.tokenAddress`
EventFound(logs) == Len(logs) > 0

\* CallShowTokenDetails with the call left out: the caller goes on to the
\* menu.
SkipShowTokenDetails ==
    /\ nest' = nest
    /\ ToMainMenu

\* `await showTokenDetails()` of createToken and connectToToken, which have
\* just assigned tokenAddress.
CallShowTokenDetails ==
    /\ nest' = Append(nest, "showTokenDetails")
    /\ pc' = "details_all"

\* createToken, from `await publicClient.getLogs(...)` on: the TokenCreated
\* events of the factory in the receipt's block.  With one or more, the
\* first one's tokenAddress becomes tokenAddress and showTokenDetails is
\* called; with none, "event not found" is printed.
getLogs ==
    /\ pc = "getLogs"
    /\ \E ok \in BOOLEAN, logs \in LogsAnswers :
        \* a reverted transaction has emitted no event of its own
        /\ tx[1].status = "reverted" => \A i \in 1..Len(logs) : logs[i] # OwnToken
        /\ IF ~ok
           THEN Caught("chain") /\ UNCHANGED <<tokenAddress, loc, nest, verified>>
           ELSE /\ loc' = [loc EXCEPT !.logs = Some(logs)]
                /\ IF EventFound(logs)
                   THEN /\ tokenAddress' = Some(logs[1])
                        /\ verified' = Null
                        /\ out' = out \cup {"Token created successfully"}
                        /\ CallShowTokenDetails
                   ELSE /\ out' = out \cup {"Token creation event not found"}
                        /\ ToMainMenu
                        /\ UNCHANGED <<tokenAddress, nest, verified>>
    /\ UNCHANGED <<cur, bootVars, sessVars, tx, pre, menuChoice>>

\* connectToToken: the address typed becomes tokenAddress at once, and
\* showTokenDetails is called to verify it.
connectToToken ==
    /\ pc = "connectToToken"
    /\ \E addressInput \in TokenInputs :
        tokenAddress' = Some(toHexAddress(addressInput))
    /\ verified' = Null
    /\ out' = out \cup {"prompt"}
    /\ CallShowTokenDetails
    /\ UNCHANGED <<cur, bootVars, sessVars, loc, tx, pre, menuChoice>>

\* showTokenDetails called from the menu: its guard.
showTokenDetails ==
    /\ pc = "showTokenDetails"
    /\ IF NoTokenConnected(tokenAddress)
       THEN /\ out' = out \cup {"No token connected"}
            /\ ToMainMenu
       ELSE /\ out' = out
            /\ pc' = "details_all"
    /\ UNCHANGED <<cur, nest, bootVars, sessVars, tokenAddress, loc, tx, pre, menuChoice, verified>>

\* DetailsFailed without `tokenAddress = null`.
DetailsFailedKeepsToken(why) ==
    /\ out' = out \cup {"Error fetching token details", why}
    /\ tokenAddress' = tokenAddress
    /\ verified' = Null
    /\ ToMainMenu

\* The catch of showTokenDetails: the error is printed and tokenAddress
\* set to null; every caller then shows the menu.
DetailsFailed(why) ==
    /\ out' = out \cup {"Error fetching token details", why}
    /\ tokenAddress' = Null
    /\ verified' = Null
    /\ ToMainMenu

\* The reads showTokenDetails joins with Promise.all.
JoinedReads == {"name", "symbol", "decimals", "totalSupply"}

\* showTokenDetails, from `await Promise.all([...])` on: when the four
\* joined reads have all answered, name, symbol, decimals, total supply and
\* contract address are printed, and the balance is read next; when one of
\* them fails, the catch clears tokenAddress.
showTokenDetails_all ==
    /\ pc = "details_all"
    /\ \E failed \in SUBSET JoinedReads :
        /\ ~TokenIsAddress => failed = JoinedReads
        /\ IF failed # {}
           THEN DetailsFailed(IF TokenIsAddress THEN "chain" ELSE "input")
           ELSE /\ out' = out \cup {"read", "Token Details"}
                /\ pc' = "details_balance"
                /\ UNCHANGED <<tokenAddress, verified>>
    /\ UNCHANGED <<cur, nest, bootVars, sessVars, loc, tx, pre, menuChoice>>

\* showTokenDetails, from `await readContract({functionName: 'balanceOf',
\* args: [userAddress]})` on: the balance is printed, or the catch clears
\* tokenAddress.  Every caller then shows the menu.
showTokenDetails_balance ==
    /\ pc = "details_balance"
    /\ \E ok \in BOOLEAN :
        IF ~ok
        THEN DetailsFailed("chain")
        ELSE /\ out' = out \cup {"Your balance"}
             /\ tokenAddress' = tokenAddress
             /\ verified' = tokenAddress
             /\ ToMainMenu
    /\ UNCHANGED <<cur, nest, bootVars, sessVars, loc, tx, pre, menuChoice>>

\* ------------------------------------------------------ identity management
\* AccountInfo with the address taken from the key itself, not derived.
AccountInfoKeyAsAddress(name, privateKey) ==
    [name |-> name, privateKey |-> privateKey,
     account |-> privateKeyToAccount(privateKey),
     address |-> privateKey]

\* The AccountInfo pushed for a key.
AccountInfo(name, privateKey) ==
    [name |-> name, privateKey |-> privateKey,
     account |-> privateKeyToAccount(privateKey),
     address |-> privateKeyToAccount(privateKey).address]

\* `switchToNew.toLowerCase() === 'y'`
Accepts(switchToNew) == toLowerCase(switchToNew) = <<"y">>

\* AcceptSwitch with `accounts.length` for `accounts.length - 1`.
AcceptSwitchPastEnd ==
    /\ currentAccountIndex' = Len(accounts)
    /\ pc' = "switchAccount"
    /\ cur' = "switchAccount"
    /\ nest' = Append(nest, "switchAccount")
    /\ UNCHANGED <<accounts, account, userAddress, walletClient>>

\* What create and import do when the operator accepts the offer to switch:
\* currentAccountIndex is set to the new entry and switchAccount is called.
AcceptSwitch ==
    /\ currentAccountIndex' = Len(accounts) - 1
    /\ pc' = "switchAccount"
    /\ cur' = "switchAccount"
    /\ nest' = Append(nest, "switchAccount")
    /\ UNCHANGED <<accounts, account, userAddress, walletClient>>

\* createNewAccount, up to its await of the y/n answer: a name is asked for,
\* a random key generated and its account derived (which throws into the
\* catch for a key that is no key), and the new identity is pushed.
createNewAccount ==
    /\ pc = "createNewAccount"
    /\ \E name \in NameInputs, privateKey \in RandomKeys :
        /\ loc' = [loc EXCEPT !.name = Some(name)]
        /\ IF ~ValidPrivateKey(privateKey)
           THEN Caught("input") /\ accounts' = accounts
           ELSE /\ accounts' = push(accounts, AccountInfo(name, privateKey))
                /\ out' = out \cup {"prompt", "New account created"}
                /\ pc' = "create_switchToNew"
    /\ UNCHANGED <<cur, nest, bootVars, currentAccountIndex, account, userAddress,
                   walletClient, tokenAddress, tx, pre, menuChoice, verified>>

\* createNewAccount, from the y/n answer on.
createNewAccount_switchToNew ==
    /\ pc = "create_switchToNew"
    /\ \E switchToNew \in YesNoInputs :
        /\ loc' = [loc EXCEPT !.switchToNew = Some(switchToNew)]
        /\ IF Accepts(switchToNew)
           THEN AcceptSwitch
           ELSE ToMainMenu /\ UNCHANGED <<cur, nest, sessVars>>
    /\ out' = out \cup {"prompt"}
    /\ UNCHANGED <<bootVars, tokenAddress, tx, pre, menuChoice, verified>>

\* importAccount, up to its await of the y/n answer: name and key are asked
\* for, the key is given its 0x, its account derived (which throws into
\* the catch for a key that is no key), and the identity is pushed.
importAccount ==
    /\ pc = "importAccount"
    /\ \E name \in NameInputs, keyInput \in KeyInputs :
        LET privateKey == NormalizeKey(keyInput) IN
        /\ loc' = [loc EXCEPT !.name = Some(name)]
        /\ IF ~ValidPrivateKey(privateKey)
           THEN Caught("input") /\ accounts' = accounts
           ELSE /\ accounts' = push(accounts, AccountInfo(name, privateKey))
                /\ out' = out \cup {"prompt", "Account imported"}
                /\ pc' = "import_switchToNew"
    /\ UNCHANGED <<cur, nest, bootVars, currentAccountIndex, account, userAddress,
                   walletClient, tokenAddress, tx, pre, menuChoice, verified>>

\* importAccount, from the y/n answer on.
importAccount_switchToNew ==
    /\ pc = "import_switchToNew"
    /\ \E switchToNew \in YesNoInputs :
        /\ loc' = [loc EXCEPT !.switchToNew = Some(switchToNew)]
        /\ IF Accepts(switchToNew)
           THEN AcceptSwitch
           ELSE ToMainMenu /\ UNCHANGED <<cur, nest, sessVars>>
    /\ out' = out \cup {"prompt"}
    /\ UNCHANGED <<bootVars, tokenAddress, tx, pre, menuChoice, verified>>

\* `parseInt(choice) - 1`
SelectedIndex(choice) ==
    IF parseInt(choice) = NaN THEN NaN ELSE Some(parseInt(choice)[1] - 1)

\* ValidSelection with `<=` for `<`.
ValidSelectionOffByOne(selectedIndex, length) ==
    /\ selectedIndex # NaN
    /\ selectedIndex[1] >= 0
    /\ selectedIndex[1] <= length

\* `selectedIndex >= 0 && selectedIndex < accounts.length`
ValidSelection(selectedIndex, length) ==
    /\ selectedIndex # NaN
    /\ selectedIndex[1] >= 0
    /\ selectedIndex[1] < length

\* `choice.toLowerCase() === 'c'`
IsCreateEscape(choice) == toLowerCase(choice) = <<"c">>

\* Entering createNewAccount from inside switchAccount.
CallCreateNewAccount ==
    /\ pc' = "createNewAccount"
    /\ cur' = "createNewAccount"
    /\ nest' = Append(nest, "createNewAccount")

\* switchAccount, up to its await of getBalance: the accounts are listed and
\* a selection is read.  'c' calls createNewAccount (refused by the model
\* once the registry holds MaxAccounts identities); a selection inside
\* 1..accounts.length sets currentAccountIndex, account, userAddress and
\* the wallet client; any other prints "Invalid selection".
switchAccount ==
    /\ pc = "switchAccount"
    /\ IF Len(accounts) = 0
       THEN /\ CallCreateNewAccount
            /\ out' = out \cup {"No accounts available"}
            /\ UNCHANGED <<sessVars, loc>>
       ELSE \E choice \in SelectInputs :
            LET selectedIndex == SelectedIndex(choice) IN
            /\ loc' = [loc EXCEPT !.choice = Some(choice)]
            /\ IF IsCreateEscape(choice)
               THEN /\ Len(accounts) < MaxAccounts
                    /\ CallCreateNewAccount
                    /\ out' = out \cup {"prompt"}
                    /\ UNCHANGED sessVars
               ELSE IF ValidSelection(selectedIndex, Len(accounts))
               THEN /\ currentAccountIndex' = selectedIndex[1]
                    /\ accounts' = accounts
                    /\ UNCHANGED <<cur, nest>>
                    /\ IF AccountAt(selectedIndex[1]) = Null
                       THEN \* accounts[i] is undefined: `.account` throws
                            /\ Caught("input")
                            /\ UNCHANGED <<account, userAddress, walletClient>>
                       ELSE /\ account' = AccountAt(selectedIndex[1])[1].account
                            /\ userAddress' = account'.address
                            /\ walletClient' = createWalletClient(account')
                            /\ out' = out \cup {"prompt", "Switched to account"}
                            /\ pc' = "switch_getBalance"
               ELSE /\ out' = out \cup {"prompt", "Invalid selection"}
                    /\ ToMainMenu
                    /\ UNCHANGED <<cur, nest, sessVars>>
    /\ UNCHANGED <<bootVars, tokenAddress, tx, pre, menuChoice, verified>>

\* switchAccount, from the answer to getBalance on: the balance is printed,
\* or the read fails and the catch prints the error; the menu follows.
switchAccount_getBalance ==
    /\ pc = "switch_getBalance"
    /\ \E ok \in BOOLEAN :
        IF ok
        THEN /\ out' = out \cup {"Account balance"}
             /\ ToMainMenu
        ELSE Caught("chain")
    /\ UNCHANGED <<cur, nest, bootVars, sessVars, tokenAddress, loc, tx, pre, menuChoice, verified>>

\* ------------------------------------------------------------ specification
Next ==
    \/ initialize
    \/ initialize_getBalance
    \/ showMainMenu
    \/ showMainMenu_choice
    \/ createToken
    \/ connectToToken
    \/ mintTokens
    \/ burnTokens
    \/ transferTokens
    \/ approveTokens
    \/ transferFromTokens
    \/ checkBalance
    \/ readDecimals
    \/ readAllowance
    \/ writeContract
    \/ waitForTransactionReceipt
    \/ postRead
    \/ postReadAllowance
    \/ getLogs
    \/ showTokenDetails
    \/ showTokenDetails_all
    \/ showTokenDetails_balance
    \/ createNewAccount
    \/ createNewAccount_switchToNew
    \/ importAccount
    \/ importAccount_switchToNew
    \/ switchAccount
    \/ switchAccount_getBalance

Spec == Init /\ [][Next]_vars

\* The program as long as it is answered: every await resolves (the chain
\* answers the request, the operator the prompt), so a step that can be
\* taken is taken.
FairSpec == Spec /\ WF_vars(Next)

\* ------------------------------------------- the amount functions on their own
\* parseAmount and formatAmount applied to an amount and a precision, with
\* no session: the amount is any of DecimalStrings or of AmountInputs.
AmountInit ==
    /\ pc = "parseAmount"
    /\ cur = "parseAmount"
    /\ nest = <<>>
    /\ config = CHOOSE c \in EnvConfigs : c.privateKey = <<>>
    /\ prompted = {}
    /\ exitCode = Null
    /\ accounts = <<>>
    /\ currentAccountIndex = 0
    /\ account = NoAccount
    /\ userAddress = <<>>
    /\ walletClient = createWalletClient(NoAccount)
    /\ tokenAddress = Null
    /\ \E amount \in DecimalStrings \cup AmountInputs, decimals \in DecimalsAnswers :
        loc = [NoLoc EXCEPT !.amount = Some(amount), !.decimals = Some(decimals)]
    /\ tx = Null
    /\ out = {}
    /\ pre = Session
    /\ menuChoice = Null
    /\ verified = Null

\* parseAmount(amount, decimals): the bigint is kept, or the call throws.
ApplyParseAmount ==
    /\ pc = "parseAmount"
    /\ LET amountInWei == parseAmount(loc.amount[1], loc.decimals[1])
       IN  /\ loc' = [loc EXCEPT !.amountInWei = amountInWei]
           /\ pc' = IF amountInWei = Null THEN "thrown" ELSE "formatAmount"
           /\ cur' = IF amountInWei = Null THEN cur ELSE "formatAmount"
    /\ UNCHANGED <<nest, bootVars, sessVars, tokenAddress, tx, out, pre, menuChoice, verified>>

\* formatAmount(amountInWei, decimals) of the bigint parseAmount returned.
ApplyFormatAmount ==
    /\ pc = "formatAmount"
    /\ loc' = [loc EXCEPT
                !.formatted = Some(formatAmount(loc.amountInWei[1], loc.decimals[1]))]
    /\ pc' = "formatted"
    /\ UNCHANGED <<cur, nest, bootVars, sessVars, tokenAddress, tx, out, pre,
                   menuChoice, verified>>

AmountNext ==
    \/ ApplyParseAmount
    \/ ApplyFormatAmount

AmountSpec == AmountInit /\ [][AmountNext]_vars

\* ------------------------------------------------------------------- claims
\* The Identity Main-Menu shows as "Current Account".
CurrentIdentity == accounts[currentAccountIndex + 1]

\* The operation functions on the call chain since the menu choice.
Entered == {nest[i] : i \in 1..Len(nest)}

\* The token operations that require a connected token and send a transaction.
MutatingOps == {"mintTokens", "burnTokens", "transferTokens", "approveTokens",
                "transferFromTokens"}

\* C1: every state-changing call the chain has taken is signed by the
\* current Identity, the one at currentAccountIndex that Main-Menu shows.
C1_SignedByCurrentIdentity ==
    (tx # Null /\ tx[1].status # "refused")
    => tx[1].from = CurrentIdentity.address

\* C2: transferFrom sends no transaction when the allowance read for
\* (sender, userAddress) is below the scaled amount: the shortfall is
\* reported and the menu shown; and a transferFrom that was sent had an
\* allowance of at least its amount.
C2_NoTransferFromBeyondAllowance ==
    /\ (cur = "transferFromTokens" /\ loc.allowance # Null
          /\ loc.amountInWei[1] > loc.allowance[1])
       => (tx = Null /\ pc = "showMainMenu" /\ "Insufficient allowance" \in out)
    /\ (tx # Null /\ tx[1].fn = "transferFrom")
       => (loc.allowance # Null /\ loc.allowance[1] >= tx[1].amount[1])

\* C2 witness: a transferFrom of 50 smallest units against an allowance of
\* 49 is back at the menu.
C2_Witness ==
    /\ cur = "transferFromTokens"
    /\ pc = "showMainMenu"
    /\ loc.allowance = Some(49)
    /\ loc.amountInWei = Some(50)

\* C3: with no token connected, mint, burn, transfer, approve and
\* transferFrom report the missing connection and show the menu, having
\* asked nothing, read nothing and sent nothing.
C3_NoTokenNoEffect ==
    (cur \in MutatingOps /\ pre.tokenAddress = Null /\ pc # cur)
    => /\ pc = "showMainMenu"
       /\ out = {"No token connected"}
       /\ loc = NoLoc
       /\ tx = Null
       /\ Session = pre

\* C3 witness: transferFrom was chosen with no token connected.
C3_Witness ==
    /\ cur = "transferFromTokens"
    /\ pc = "showMainMenu"
    /\ "No token connected" \in out

\* C4: once a token-details fetch has failed, whether it was reached from
\* show token details, connect to token or create token and whichever read
\* failed, tokenAddress is null.
C4_FailedDetailsClearToken ==
    "Error fetching token details" \in out => tokenAddress = Null

\* C4 witness: connect to token failed its details fetch while another
\* token was connected.
C4_Witness ==
    /\ cur = "connectToToken"
    /\ pc = "showMainMenu"
    /\ pre.tokenAddress # Null
    /\ "Error fetching token details" \in out

\* C5: create token, once getLogs has answered.  With a TokenCreated event
\* of the factory in the block, tokenAddress becomes the first event's
\* tokenAddress and the details fetch follows: at the menu the details have
\* been displayed and tokenAddress is that address, unless the fetch failed
\* (C4).  With no event, "not found" is reported and tokenAddress is what
\* it was before the operation.
C5_CreateTokenConnects ==
    (cur = "createToken" /\ loc.logs # Null)
    => IF Len(loc.logs[1]) > 0
       THEN /\ "Token created successfully" \in out
            /\ IF "Error fetching token details" \in out
               THEN tokenAddress = Null
               ELSE /\ tokenAddress = Some(loc.logs[1][1])
                    /\ pc = "showMainMenu"
                       => {"Token Details", "Your balance"} \subseteq out
       ELSE /\ "Token creation event not found" \in out
            /\ pc = "showMainMenu"
            /\ tokenAddress = pre.tokenAddress

\* C5 witness: create token found its event while another token was
\* connected, and is back at the menu with the details displayed.
C5_Witness ==
    /\ cur = "createToken"
    /\ pc = "showMainMenu"
    /\ loc.logs # Null
    /\ Len(loc.logs[1]) > 0
    /\ pre.tokenAddress # Null
    /\ tokenAddress = Some(loc.logs[1][1])
    /\ tokenAddress # pre.tokenAddress
    /\ "Your balance" \in out

C7_InvalidSelectionNoChange ==
    [][(/\ pc = "switchAccount"
        /\ loc'.choice # Null
        /\ loc'.choice # loc.choice \/ pc' # pc
        /\ toLowerCase(loc'.choice[1]) # <<"c">>
        /\ \/ parseInt(loc'.choice[1]) = NaN
           \/ parseInt(loc'.choice[1])[1] \notin 1..Len(accounts))
       => /\ currentAccountIndex' = currentAccountIndex
          /\ account' = account
          /\ userAddress' = userAddress
          /\ walletClient' = walletClient
          /\ "Invalid selection" \in out'
          /\ pc' = "showMainMenu"]_vars

\* C7 witness: the selection "5", beyond the registry, was refused.
C7_Witness ==
    /\ cur = "switchAccount"
    /\ pc = "showMainMenu"
    /\ loc.choice = Some(<<"5">>)
    /\ "Invalid selection" \in out

\* C8: when a request to the chain has failed inside an operation (one that
\* neither creates nor imports an identity), the session at the return to
\* the menu is the session before the operation, but for tokenAddress
\* cleared by a failed details fetch.
C8_ChainErrorsLeaveSession ==
    (pc = "showMainMenu" /\ "chain" \in out
       /\ Entered \cap {"createNewAccount", "importAccount"} = {})
    => /\ accounts = pre.accounts
       /\ currentAccountIndex = pre.currentAccountIndex
       /\ account = pre.account
       /\ walletClient = pre.walletClient
       /\ \/ tokenAddress = pre.tokenAddress
          \/ tokenAddress = Null /\ "Error fetching token details" \in out

\* C9: a transaction that ends reverted is never reported as a success,
\* and an error has been reported by the time the menu is shown.
C9_RevertIsFailure ==
    (tx # Null /\ tx[1].status = "reverted" /\ cur \in MutatingOps)
    => /\ "successfully!" \notin out
       /\ pc = "showMainMenu" => "Error" \in out

\* An amount that is no decimal number: the empty string, or one with a
\* character that is neither a digit, a point nor a sign.
NotDecimal(amount) ==
    \/ amount = <<>>
    \/ \E i \in 1..Len(amount) : amount[i] \notin Digits \cup {".", "-"}

\* C10: when the amount entered is no decimal number, the empty string
\* included, the chain is sent no transaction, the session stays as it was
\* and the menu is shown with the error reported.
C10_BadAmountNoEffect ==
    (cur \in MutatingOps /\ loc.amount # Null /\ NotDecimal(loc.amount[1]))
    => /\ tx = Null \/ tx[1].status = "refused"
       /\ Session = pre
       /\ pc = "showMainMenu" => "Error" \in out

\* An operation chosen at the menu is executing.
OperationActive ==
    pc \notin {"initialize", "init_getBalance", "showMainMenu", "menu_choice",
               "exited"}

\* C11, for a registry of at most MaxAccounts identities: under FairSpec an
\* operation that is executing leads to the call of showMainMenu.  (A chain
\* of create and switch entered from one another ends here at the latest
\* when the registry is full; the code sets it no limit.)
C11_OperationReturnsToMenu == OperationActive ~> (pc = "showMainMenu")

\* Initialization has completed: "Initialization complete!" was printed and
\* the first menu called.
InitializationCompleted ==
    \/ "Initialization complete!" \in out
    \/ cur # "initialize"

\* C12: the process has exited with status 0 exactly when "0" was the line
\* read at the menu; it has exited with status 1 only in initialize, before
\* the first menu, with the initialization error reported; and an operation
\* that has reported an error has not made the process exit.
C12_ExitStatus ==
    /\ exitCode = Some(0) <=> menuChoice = Some("0")
    /\ exitCode = Some(1)
       => (~InitializationCompleted /\ "Initialization error" \in out)
    /\ (InitializationCompleted /\ menuChoice # Some("0")) => exitCode = Null
    /\ "Error" \in out => exitCode = Null

\* C12 witness: "0" was chosen after an operation, with a token connected
\* and a second identity registered, and the process has exited with 0.
C12_Witness ==
    /\ pc = "exited"
    /\ exitCode = Some(0)
    /\ tokenAddress # Null
    /\ Len(accounts) > 1

\* The four connection parameters, and whether the environment left one
\* unset: config then holds the default URL, NaN, or the empty string.
ConnectionParameters == {"rpcUrl", "chainId", "tokenFactoryAddress", "privateKey"}

Unset(parameter) ==
    CASE parameter = "rpcUrl" -> config.rpcUrl = "http://localhost:8545"
      [] parameter = "chainId" -> config.chainId = NaN
      [] parameter = "tokenFactoryAddress" -> config.tokenFactoryAddress = <<>>
      [] OTHER -> config.privateKey = <<>>

\* C13: initialize, before it establishes the clients, has asked the
\* operator for every connection parameter the environment left unset.
C13_UnsetParametersRequested ==
    [][pc = "initialize"
       => \A parameter \in ConnectionParameters :
            Unset(parameter) => parameter \in prompted']_vars

\* C14: a line read at the menu that is none of the selections 0 to 12
\* prints "Invalid choice" and nothing else, shows the menu again, enters no
\* operation, does not exit, and leaves the session as it was.
C14_InvalidChoiceRedisplays ==
    (menuChoice # Null /\ menuChoice[1] \notin Selections)
    => /\ pc = "showMainMenu"
       /\ out = {"Invalid choice"}
       /\ exitCode = Null
       /\ nest = <<>>
       /\ cur = "showMainMenu"
       /\ Session = pre

\* C14 witness: the line "13" was read with a token connected, and the menu
\* is about to be shown again.
C14_Witness ==
    /\ menuChoice = Some("13")
    /\ pc = "showMainMenu"
    /\ tokenAddress # Null

\* C15: once initialization has completed, the registry is non-empty and
\* currentAccountIndex is the index of one of its entries.
C15_OneCurrentIdentity ==
    InitializationCompleted
    => /\ Len(accounts) >= 1
       /\ currentAccountIndex >= 0
       /\ currentAccountIndex < Len(accounts)

\* C15 witness: the operator accepted the switch to a newly created
\* identity, the last of a full registry, and switchAccount is entered.
C15_Witness ==
    /\ pc = "switchAccount"
    /\ Len(nest) > 1
    /\ Len(accounts) = MaxAccounts
    /\ currentAccountIndex = MaxAccounts - 1

\* C16: every step leaves the registry as it was or appends one entry to it,
\* so that the registry of every earlier state is a prefix of the registry
\* of every later one; and after the bootstrap identity, an entry is
\* appended only by createNewAccount or importAccount.
C16_AppendOnly ==
    [][/\ Len(accounts') >= Len(accounts)
       /\ SubSeq(accounts', 1, Len(accounts)) = accounts
       /\ accounts' # accounts
          => /\ Len(accounts') = Len(accounts) + 1
             /\ \/ pc = "initialize" /\ accounts = <<>>
                \/ pc \in {"createNewAccount", "importAccount"}]_vars

\* C16 witness: the registry has grown to MaxAccounts entries, the last one
\* imported.
C16_Witness ==
    /\ Len(accounts) = MaxAccounts
    /\ pc = "import_switchToNew"

\* C17: every entry of the registry stores a key that derives, and its
\* address and its account are the derivation of that key.
C17_AddressDerivedFromKey ==
    \A i \in DOMAIN accounts :
        /\ ValidPrivateKey(accounts[i].privateKey)
        /\ accounts[i].address = DeriveAddress(accounts[i].privateKey)
        /\ accounts[i].account.address = accounts[i].address

\* C17 witness: a key typed without its 0x prefix was imported next to the
\* bootstrap identity, and a created identity follows it.
C17_Witness ==
    /\ Len(accounts) = MaxAccounts
    /\ accounts[2].privateKey = KeyOf("1")
    /\ accounts[2].address = AddrOf("a")
    /\ pc = "create_switchToNew"

\* C18: a mint the chain has taken, for which no recipient was entered, has
\* as its recipient the address of the current Identity, the one at
\* currentAccountIndex.
C18_MintDefaultsToCurrentIdentity ==
    (tx # Null /\ tx[1].fn = "mint" /\ tx[1].status # "refused"
       /\ loc.recipientInput = Some(<<>>))
    => tx[1].addrs[1] = CurrentIdentity.address

\* The parts of a decimal string: its sign, the digits before the point and
\* the digits after it.
Unsigned(s) == IF s # <<>> /\ s[1] = "-" THEN Tail(s) ELSE s
PointAt(s) == IF \E i \in 1..Len(s) : s[i] = "." THEN CHOOSE i \in 1..Len(s) : s[i] = "."
              ELSE Len(s) + 1
IntegerDigits(s) == SubSeq(Unsigned(s), 1, PointAt(Unsigned(s)) - 1)
FractionDigits(s) == SubSeq(Unsigned(s), PointAt(Unsigned(s)) + 1, Len(Unsigned(s)))

\* A valid decimal string: an optional sign, one digit or more, and
\* optionally a point followed by one digit or more.
ValidDecimalString(s) ==
    /\ IntegerDigits(s) # <<>>
    /\ \A i \in 1..Len(IntegerDigits(s)) : IntegerDigits(s)[i] \in Digits
    /\ \A i \in 1..Len(FractionDigits(s)) : FractionDigits(s)[i] \in Digits
    /\ PointAt(Unsigned(s)) <= Len(Unsigned(s)) => FractionDigits(s) # <<>>

\* The number a decimal string denotes, times 10^k (k at least the number of
\* its fraction digits).
Scaled(s, k) ==
    (IF s # <<>> /\ s[1] = "-" THEN -1 ELSE 1)
    * NatOf(IntegerDigits(s) \o FractionDigits(s))
    * Pow10(k - Len(FractionDigits(s)))

Abs(n) == IF n < 0 THEN -n ELSE n
Max(a, b) == IF a >= b THEN a ELSE b

\* C19: for a valid decimal string s and a precision d, parseAmount(s, d)
\* returns a bigint, formatAmount of it at d denotes a number within 10^-d
\* of s, and when s has at most d fraction digits the bigint is s * 10^d
\* exactly.
C19_AmountRoundTrip ==
    (pc \in {"thrown", "formatted"} /\ ValidDecimalString(loc.amount[1]))
    => LET s == loc.amount[1]
           d == loc.decimals[1]
           t == loc.formatted[1]
           k == Max(Max(Len(FractionDigits(s)), Len(FractionDigits(t))), d)
       IN  /\ pc = "formatted"
           /\ ValidDecimalString(t)
           /\ Abs(Scaled(t, k) - Scaled(s, k)) <= Pow10(k - d)
           /\ Len(FractionDigits(s)) <= d => loc.amountInWei[1] = Scaled(s, d)

\* C19 witness: 9.995 at precision 2 was rounded with a carry into the
\* integer part and formatted as 10.
C19_Witness ==
    /\ pc = "formatted"
    /\ loc.amount = Some(<<"9", ".", "9", "9", "5">>)
    /\ loc.decimals = Some(2)
    /\ loc.amountInWei = Some(1000)
    /\ loc.formatted = Some(<<"1", "0">>)

\* C20: no operation is entered from inside another one.  The details
\* display that create token and connect to token end with is counted as
\* part of those two operations.
C20_NoNesting ==
    \A i \in 2..Len(nest) :
        /\ i = 2
        /\ nest[1] \in {"createToken", "connectToToken"}
        /\ nest[2] = "showTokenDetails"

\* C21: the five reads (name, symbol, decimals, total supply, balance) are
\* joined before anything is displayed, so that a details fetch that has
\* failed, whichever read failed, has displayed no token detail.
C21_DetailsJoinedBeforeDisplay ==
    "Error fetching token details" \in out => "Token Details" \notin out

\* Main-Menu is displayed: showMainMenu has printed "Current Account" and
\* the menu and awaits the choice.
MainMenuDisplayed == pc = "menu_choice"

\* C22: whenever Main-Menu is displayed, the signer, the account the wallet
\* client is bound to and userAddress are those of the Identity at
\* currentAccountIndex.
C22_IdentityBindingsAgree ==
    MainMenuDisplayed
    => /\ account = CurrentIdentity.account
       /\ walletClient.account = CurrentIdentity.account
       /\ userAddress = CurrentIdentity.address

\* C23: when create token, its own transaction mined with success and its
\* event in the block, has set tokenAddress, tokenAddress is the token that
\* transaction created, whatever other TokenCreated events of the factory
\* the block holds.
C23_CreateTokenConnectsOwnToken ==
    (cur = "createToken" /\ loc.logs # Null /\ tokenAddress # Null
       /\ tx[1].status = "success"
       /\ \E i \in 1..Len(loc.logs[1]) : loc.logs[1][i] = OwnToken)
    => tokenAddress = Some(OwnToken)

\* C24: whenever Main-Menu is displayed with a token connected, the last
\* thing that happened to tokenAddress is a details fetch of exactly that
\* address that succeeded: it was not assigned since, and no fetch of it
\* has failed since.
C24_ConnectedTokenVerified ==
    (MainMenuDisplayed /\ tokenAddress # Null) => verified = tokenAddress

\* C24 witness: Main-Menu is displayed with another sender's token connected
\* by create token, its details fetched with success.
C24_Witness ==
    /\ MainMenuDisplayed
    /\ tokenAddress = Some(AddrOf("e"))
    /\ verified = tokenAddress
    /\ Len(accounts) > 1

====
